---- MODULE Spec2Model ----
(***************************************************************************)
(* Job lifecycle of the YouTube download backend: the in-memory job store   *)
(* of YouTubeService (services/youtube.py), the HTTP handlers that read and *)
(* write it (api/youtube.py) and the download_video unit that the POST      *)
(* /download handler schedules as a background task.                        *)
(*                                                                          *)
(* Handlers are "async def" without an await: each runs to completion on    *)
(* the event loop and is one action.  download_video is a plain function;   *)
(* as a background task it runs in a worker thread, so its store writes     *)
(* interleave with handlers: each write is one action.                      *)
(***************************************************************************)
EXTENDS Integers, Sequences, FiniteSets, TLC

VARIABLES jobs, task, test_mode, max_duration, now, nreq, resp, upd,
          limiter, history

vars == <<jobs, task, test_mode, max_duration, now, nreq, resp, upd, limiter, history>>

(* ------------------------------ bounds --------------------------------- *)

\* handler invocations and direct service calls in one behaviour
MaxRequests == 2
\* 'downloading' events the engine reports during one download
MaxTicks == 1

(* ------------------------------ values --------------------------------- *)

\* DownloadStatus (models/youtube_models.py)
PENDING == "pending"
IN_PROGRESS == "in_progress"
COMPLETED == "completed"
FAILED == "failed"

DownloadStatus == {PENDING, IN_PROGRESS, COMPLETED, FAILED}

\* uuid4 values: distinct opaque strings
JobIds == {"j1", "j2"}

\* A URL is the sequence of the lexical pieces the validator's regular
\* expression distinguishes.  "ID11" is an 11-character identifier over
\* [a-zA-Z0-9_-], "ID10" a 10-character one.
UrlWatch == <<"https", "://", "www.", "youtube.com/", "watch?v=", "ID11">>
UrlShort == <<"http", "://", "youtu.be/", "ID11">>
UrlFtp == <<"ftp", "://", "www.", "youtube.com/", "watch?v=", "ID11">>
UrlShortId == <<"https", "://", "www.", "youtube.com/", "watch?v=", "ID10">>

Urls == {UrlWatch, UrlShort, UrlFtp, UrlShortId}

\* the alternatives of the regular expression's host-and-path group
HostPaths ==
    { <<"youtube.com/", "watch?v=">>, <<"youtube.com/", "embed/">>,
      <<"youtube.com/", "v/">>, <<"youtu.be/">>,
      <<"m.", "youtube.com/", "watch?v=">> }

\* r'^https?://(www\.)?(youtube\.com/(watch\?v=|embed/|v/)|youtu\.be/|
\*   m\.youtube\.com/watch\?v=)[a-zA-Z0-9_-]{11}$' under re.match: "$" also
\* matches just before one trailing newline.
MatchYoutubeRegex(url) ==
    \E s \in {<<"http">>, <<"https">>}, w \in {<<>>, <<"www.">>},
       h \in HostPaths, nl \in {<<>>, <<"\n">>} :
        url = s \o <<"://">> \o w \o h \o <<"ID11">> \o nl

\* YouTubeService.validate_youtube_url
validate_youtube_url(url) == MatchYoutubeRegex(url)

\* YouTubeUrlRequest.validate_youtube_url: the request model's validator,
\* run by the framework before the handler body
RequestModelAccepts(url) == MatchYoutubeRegex(url)

\* durations (seconds) the extraction engine can report
Durations == {30, 900}
\* values of settings.youtube_max_duration
MaxDurations == {60, 600}
\* percentages of a 'downloading' event
Percents == {50}
\* the '_percent_str' of a 'downloading' event: a percentage, or the text the
\* engine gives when the total size is not known
PercentStrs == {"50.0%", "N/A%"}

\* error texts
EInvalidUrl == "Invalid YouTube URL format"
ENetwork == "Network error"
ETooLong == "Video too long"
ENoFile == "Download completed but file could not be found"
EEngine == "Download failed"
EDisk == "No space left on device"
ECancelled == "Job cancelled by user"
EFloat == "could not convert string to float: 'N/A'"

\* f"Error extracting video info: {str(e)}"
ErrExtracting(e) ==
    CASE e = ENetwork -> "Error extracting video info: Network error"
      [] e = ETooLong -> "Error extracting video info: Video too long"

\* f"Error downloading video: {str(e)}"
ErrDownloading(e) ==
    CASE e = ENoFile ->
           "Error downloading video: Download completed but file could not be found"
      [] e = EEngine -> "Error downloading video: Download failed"
      [] e = EFloat ->
           "Error downloading video: could not convert string to float: 'N/A'"

\* os.path.join(download_path, f"test_video_{job_id}.mp4")
TestPath(j) == IF j = "j1" THEN "test_video_j1.mp4" ELSE "test_video_j2.mp4"

\* what the 'finished' event carries as d.get('filename', d.get('_filename', ''))
FinishedNames == {"", "video.mp4"}

\* the mock record of test mode
TestMetadata == [title |-> "Test Video Title", duration |-> 180]

(* ------------------------------ job store ------------------------------ *)

\* dict.update: the keys of new overwrite, the others stay
Merge(old, new) ==
    [k \in (DOMAIN old) \cup (DOMAIN new) |->
        IF k \in DOMAIN new THEN new[k] ELSE old[k]]

\* update_job_status written as an assignment of a new dictionary in both
\* branches
update_job_status_replace(js, j, status, kwargs) ==
    [k \in (DOMAIN js) \cup {j} |->
        IF k = j THEN Merge(kwargs, [status |-> status]) ELSE js[k]]

\* YouTubeService.update_job_status, as a function of the store
update_job_status(js, j, status, kwargs) ==
    LET fields == Merge(kwargs, [status |-> status]) IN
    IF j \in DOMAIN js
    THEN [k \in DOMAIN js |-> IF k = j THEN Merge(js[j], fields) ELSE js[k]]
    ELSE [k \in (DOMAIN js) \cup {j} |-> IF k = j THEN fields ELSE js[k]]

\* keyword arguments update_job_status is called with
KwargsSamples ==
    { [k \in {} |-> 0],
      [progress |-> 50],
      [file_path |-> "video.mp4"],
      [error_details |-> ECancelled],
      [url |-> UrlShort, metadata |-> TestMetadata] }

\* two threads inside update_job_status
Threads == {1, 2}

\* no call of update_job_status in progress that a thread switch can split
IdleCall == [pc |-> "idle", job_id |-> "j1", status |-> PENDING,
             kwargs |-> [k \in {} |-> 0], seen |-> FALSE]

NoCalls == [start |-> [k \in {} |-> 0], thr |-> [t \in Threads |-> IdleCall]]

\* YouTubeService.get_job_status: None when absent
Has(j) == j \in DOMAIN jobs

\* YouTubeService.generate_job_id: a uuid4 never seen before
FreshIds == {j \in JobIds : j \notin DOMAIN jobs /\ task[j].pc = "none"}

NoTask == [pc |-> "none", url |-> <<>>,
           downloaded_file |-> "None", ticks |-> 0, err |-> "", result |-> "none"]

(* ------------------------------ metadata -------------------------------- *)

\* what ydl.extract_info does: raises, or returns a record with a duration
EngineInfos ==
    {[raises |-> TRUE, duration |-> 0]}
        \cup {[raises |-> FALSE, duration |-> d] : d \in Durations}

\* YouTubeService.get_video_info
get_video_info(url, eng) ==
    IF ~validate_youtube_url(url)
    THEN [ok |-> FALSE, err |-> EInvalidUrl]
    ELSE IF test_mode
    THEN [ok |-> TRUE, md |-> TestMetadata]
    ELSE IF eng.raises
    THEN [ok |-> FALSE, err |-> ErrExtracting(ENetwork)]
    ELSE IF eng.duration > max_duration
    THEN [ok |-> FALSE, err |-> ErrExtracting(ETooLong)]
    ELSE [ok |-> TRUE, md |-> [title |-> "Engine Title", duration |-> eng.duration]]

(* ------------------------------ initial state --------------------------- *)

\* client addresses (request.client.host)
Clients == {"10.0.0.1", "10.0.0.2"}

\* default of the requests_per_minute parameter
DefaultRequestsPerMinute == 100

\* RateLimitMiddleware.__init__: the limit and an empty table of timestamps
RateLimitMiddleware(requests_per_minute) ==
    [requests_per_minute |-> requests_per_minute,
     requests            |-> [c \in {} |-> <<>>]]

\* resp is the response (or return value) being produced by the step just
\* taken; a step that answers nobody leaves none
NoResp == [op |-> "none", code |-> 0]

Init ==
    /\ jobs = [k \in {} |-> 0]
    /\ task = [j \in JobIds |-> NoTask]
    /\ test_mode \in BOOLEAN
    /\ max_duration \in MaxDurations
    /\ now = 0
    /\ nreq = 0
    /\ resp = NoResp
    /\ upd = NoCalls
    /\ limiter = RateLimitMiddleware(DefaultRequestsPerMinute)
    /\ history = <<>>

(* ------------------------------ HTTP handlers --------------------------- *)

\* the record of an accepted request written without its metadata
WriteCreate_NoMetadata(js, j, url, md, t) ==
    update_job_status(js, j, PENDING, [url |-> url, created_at |-> t])

\* lines 59-66: the record the handler writes for an accepted request
WriteCreate(js, j, url, md, t) ==
    update_job_status(js, j, PENDING,
                      [url |-> url, metadata |-> md, created_at |-> t])

\* add_task scheduling a unit under every job id
add_task_every(ts, j, url) ==
    [k \in JobIds |-> [NoTask EXCEPT !.pc = "start", !.url = url]]

\* lines 68-73: background_tasks.add_task(download_video, url, job_id)
add_task(ts, j, url) ==
    [ts EXCEPT ![j] = [NoTask EXCEPT !.pc = "start", !.url = url]]

\* the handler with the record written and the task scheduled before the
\* URL is checked and the metadata fetched
download_youtube_video_create_first(url) ==
    /\ nreq < MaxRequests
    /\ nreq' = nreq + 1
    /\ UNCHANGED <<test_mode, max_duration, upd, limiter, history>>
    /\ \E j \in FreshIds, eng \in EngineInfos, adv \in {0, 1} :
        LET info == get_video_info(url, eng)
            md == IF info.ok THEN info.md ELSE TestMetadata IN
        /\ jobs' = WriteCreate(jobs, j, url, md, now)
        /\ task' = add_task(task, j, url)
        /\ now' = now + 1
        /\ resp' = IF ~RequestModelAccepts(url)
                   THEN [op |-> "download", url |-> url, code |-> 422,
                         detail |-> EInvalidUrl, metadata_failed |-> FALSE]
                   ELSE IF ~info.ok
                   THEN [op |-> "download", url |-> url, code |-> 400,
                         detail |-> info.err, metadata_failed |-> TRUE]
                   ELSE [op |-> "download", url |-> url, code |-> 200,
                         metadata_failed |-> FALSE,
                         job_id |-> j, status |-> PENDING,
                         created_at |-> now + adv, metadata |-> info.md]

\* POST /download (download_youtube_video).  The request model validates the
\* URL first (422); the handler body validates again (400), fetches the
\* metadata (400 on failure), writes the record, schedules download_video as
\* a background task and answers.  datetime.now() is read twice: the record
\* gets the first reading, the response the second, which is the same
\* instant (adv = 0) or a later one.
download_youtube_video(url) ==
    /\ nreq < MaxRequests
    /\ nreq' = nreq + 1
    /\ UNCHANGED <<test_mode, max_duration, upd, limiter, history>>
    /\ IF ~RequestModelAccepts(url)
       THEN /\ resp' = [op |-> "download", url |-> url, code |-> 422,
                        detail |-> EInvalidUrl, metadata_failed |-> FALSE]
            /\ UNCHANGED <<jobs, task, now>>
       ELSE IF ~validate_youtube_url(url)
       THEN /\ resp' = [op |-> "download", url |-> url, code |-> 400,
                        detail |-> EInvalidUrl, metadata_failed |-> FALSE]
            /\ UNCHANGED <<jobs, task, now>>
       ELSE \E eng \in EngineInfos :
            LET info == get_video_info(url, eng) IN
            IF ~info.ok
            THEN /\ resp' = [op |-> "download", url |-> url, code |-> 400,
                             detail |-> info.err, metadata_failed |-> TRUE]
                 /\ UNCHANGED <<jobs, task, now>>
            ELSE \E j \in FreshIds, adv \in {0, 1} :
                 /\ jobs' = WriteCreate(jobs, j, url, info.md, now)
                 /\ task' = add_task(task, j, url)
                 /\ now' = now + 1
                 /\ resp' = [op |-> "download", url |-> url, code |-> 200,
                             metadata_failed |-> FALSE,
                             job_id |-> j, status |-> PENDING,
                             created_at |-> now + adv, metadata |-> info.md]

\* the cancel write without the reason
WriteCancel_StatusOnly(js, j) ==
    update_job_status(js, j, FAILED, [k \in {} |-> 0])

\* the cancel write as a removal of the record
WriteCancel_Delete(js, j) == [k \in (DOMAIN js) \ {j} |-> js[k]]

\* lines 227-232: the write of cancel_job
WriteCancel(js, j) ==
    update_job_status(js, j, FAILED, [error_details |-> ECancelled])

\* cancel_job without the membership test of lines 221-225
cancel_job_no_check(j) ==
    /\ nreq < MaxRequests
    /\ nreq' = nreq + 1
    /\ UNCHANGED <<task, test_mode, max_duration, now, upd, limiter, history>>
    /\ jobs' = WriteCancel(jobs, j)
    /\ resp' = [op |-> "cancel", job_id |-> j, code |-> 200]

\* cancel_job written to stop the job's background unit as well
cancel_job_interrupts(j) ==
    /\ nreq < MaxRequests
    /\ nreq' = nreq + 1
    /\ UNCHANGED <<test_mode, max_duration, now, upd, limiter, history>>
    /\ IF ~Has(j)
       THEN /\ resp' = [op |-> "cancel", job_id |-> j, code |-> 404]
            /\ UNCHANGED <<jobs, task>>
       ELSE /\ jobs' = WriteCancel(jobs, j)
            /\ task' = [task EXCEPT ![j] =
                            IF task[j].pc \in {"none", "done"} THEN task[j]
                            ELSE [NoTask EXCEPT !.pc = "done",
                                                !.url = task[j].url,
                                                !.result = "cancelled"]]
            /\ resp' = [op |-> "cancel", job_id |-> j, code |-> 200]

\* DELETE /jobs/{job_id} (cancel_job)
cancel_job(j) ==
    /\ nreq < MaxRequests
    /\ nreq' = nreq + 1
    /\ UNCHANGED <<task, test_mode, max_duration, now, upd, limiter, history>>
    /\ IF ~Has(j)
       THEN /\ resp' = [op |-> "cancel", job_id |-> j, code |-> 404]
            /\ UNCHANGED jobs
       ELSE /\ jobs' = WriteCancel(jobs, j)
            /\ resp' = [op |-> "cancel", job_id |-> j, code |-> 200]

\* what get_download_status copies from the record into its response
StatusFields == {"progress", "file_path", "error_details"}

\* lines 101-103: job_info = get_job_status(job_id); "not job_info" holds for
\* None and for an empty dictionary
JobInfoMissing(j) == ~Has(j) \/ DOMAIN jobs[j] = {}

\* the status query written with setdefault: an unknown id gets a record
get_download_status_setdefault(j) ==
    /\ nreq < MaxRequests
    /\ nreq' = nreq + 1
    /\ UNCHANGED <<task, test_mode, max_duration, now, upd, limiter, history>>
    /\ jobs' = IF Has(j) THEN jobs
               ELSE update_job_status(jobs, j, PENDING, [k \in {} |-> 0])
    /\ resp' = [op |-> "status", job_id |-> j, code |-> 200,
                status |-> jobs'[j].status,
                fields |-> [k \in (DOMAIN jobs'[j]) \cap StatusFields |-> jobs'[j][k]]]

\* GET /download/{job_id}/status (get_download_status)
get_download_status(j) ==
    /\ nreq < MaxRequests
    /\ nreq' = nreq + 1
    /\ UNCHANGED <<jobs, task, test_mode, max_duration, now, upd, limiter, history>>
    /\ resp' = IF JobInfoMissing(j)
               THEN [op |-> "status", job_id |-> j, code |-> 404]
               ELSE [op |-> "status", job_id |-> j, code |-> 200,
                     status |-> IF "status" \in DOMAIN jobs[j]
                                THEN jobs[j].status ELSE PENDING,
                     fields |-> [k \in (DOMAIN jobs[j]) \cap StatusFields |-> jobs[j][k]]]

\* GET /jobs (list_jobs)
list_jobs ==
    /\ nreq < MaxRequests
    /\ nreq' = nreq + 1
    /\ UNCHANGED <<jobs, task, test_mode, max_duration, now, upd, limiter, history>>
    /\ resp' = [op |-> "list", code |-> 200,
                total_jobs |-> Cardinality(DOMAIN jobs), jobs |-> jobs]

\* get_video_metadata written to record the lookup as a job
get_video_metadata_records_job(url) ==
    /\ nreq < MaxRequests
    /\ nreq' = nreq + 1
    /\ UNCHANGED <<task, test_mode, max_duration, now, upd, limiter, history>>
    /\ \E eng \in EngineInfos, j \in JobIds :
        LET info == get_video_info(url, eng) IN
        IF ~RequestModelAccepts(url)
        THEN /\ resp' = [op |-> "metadata", url |-> url, code |-> 422]
             /\ UNCHANGED jobs
        ELSE IF ~info.ok
        THEN /\ resp' = [op |-> "metadata", url |-> url, code |-> 200,
                         success |-> FALSE, error |-> info.err]
             /\ UNCHANGED jobs
        ELSE /\ resp' = [op |-> "metadata", url |-> url, code |-> 200,
                         success |-> TRUE, metadata |-> info.md]
             /\ jobs' = update_job_status(jobs, j, PENDING,
                                          [url |-> url, metadata |-> info.md])

\* POST /metadata (get_video_metadata).  The request model rejects a bad URL
\* (422) before the handler body, whose own URL check (400) therefore never
\* fires; a failure of get_video_info is answered 200 with success false.
get_video_metadata(url) ==
    /\ nreq < MaxRequests
    /\ nreq' = nreq + 1
    /\ UNCHANGED <<jobs, task, test_mode, max_duration, now, upd, limiter, history>>
    /\ \E eng \in EngineInfos :
        LET info == get_video_info(url, eng) IN
        resp' = IF ~RequestModelAccepts(url)
                THEN [op |-> "metadata", url |-> url, code |-> 422]
                ELSE IF ~validate_youtube_url(url)
                THEN [op |-> "metadata", url |-> url, code |-> 400]
                ELSE IF ~info.ok
                THEN [op |-> "metadata", url |-> url, code |-> 200,
                      success |-> FALSE, error |-> info.err]
                ELSE [op |-> "metadata", url |-> url, code |-> 200,
                      success |-> TRUE, metadata |-> info.md]

\* POST /test-mode (toggle_test_mode)
toggle_test_mode(enable) ==
    /\ nreq < MaxRequests
    /\ nreq' = nreq + 1
    /\ test_mode' = enable
    /\ resp' = [op |-> "test-mode", code |-> 200, test_mode |-> enable]
    /\ UNCHANGED <<jobs, task, max_duration, now, upd, limiter, history>>

(* ------------------------------ download_video ------------------------- *)

\* The store writes of download_video, each as a function of the store.

\* line 110 as an assignment of a new record
WriteInit_Replace(js, j, url) == update_job_status_replace(js, j, PENDING, [url |-> url])

\* line 110: self.update_job_status(job_id, DownloadStatus.PENDING, url=url)
WriteInit(js, j, url) == update_job_status(js, j, PENDING, [url |-> url])

\* line 122: the completion write of test mode
WriteTestCompleted(js, j) ==
    update_job_status(js, j, COMPLETED, [file_path |-> TestPath(j)])

\* lines 129-131: progress_hook, d['status'] == 'downloading'
WriteProgress(js, j, p) == update_job_status(js, j, IN_PROGRESS, [progress |-> p])

\* lines 132-135: progress_hook, d['status'] == 'finished'
WriteFinished(js, j, name) ==
    update_job_status(js, j, COMPLETED, [file_path |-> name])

\* lines 157-159: the file check failed
WriteNoFile(js, j) == update_job_status(js, j, FAILED, [error_details |-> ENoFile])

\* lines 162-165: the except clause, e the message of the caught exception
WriteExcept(js, j, e) ==
    update_job_status(js, j, FAILED, [error_details |-> ErrDownloading(e)])

\* line 154: downloaded_file and os.path.exists(downloaded_file)
FileFound(downloaded_file, exists) ==
    downloaded_file \notin {"None", ""} /\ exists

\* download_video leaves by "return": its locals are gone
Returned(t) ==
    [NoTask EXCEPT !.pc = "done", !.url = t.url, !.result = "returned"]

\* download_video leaves by "raise": nothing in the background task catches it
Raised(t, e) ==
    [NoTask EXCEPT !.pc = "done", !.url = t.url, !.err = e, !.result = "raised"]

\* lines 100-113: the URL check, the initial status write and the read of
\* the test-mode flag
download_video_init(j) ==
    /\ task[j].pc = "start"
    /\ IF ~validate_youtube_url(task[j].url)
       THEN /\ task' = [task EXCEPT ![j] = Raised(task[j], EInvalidUrl)]
            /\ UNCHANGED jobs
       ELSE /\ jobs' = WriteInit(jobs, j, task[j].url)
            /\ task' = [task EXCEPT ![j].pc =
                            IF test_mode THEN "test_write" ELSE "engine"]
    /\ resp' = NoResp
    /\ UNCHANGED <<test_mode, max_duration, now, nreq, upd, limiter, history>>

\* lines 113-123: the placeholder file is written (open() may raise, outside
\* any try) and completion is recorded
download_video_test_mode(j, oserror) ==
    /\ task[j].pc = "test_write"
    /\ IF oserror
       THEN /\ task' = [task EXCEPT ![j] = Raised(task[j], EDisk)]
            /\ UNCHANGED jobs
       ELSE /\ jobs' = WriteTestCompleted(jobs, j)
            /\ task' = [task EXCEPT ![j] = Returned(task[j])]
    /\ resp' = NoResp
    /\ UNCHANGED <<test_mode, max_duration, now, nreq, upd, limiter, history>>

\* str.strip('%') on the strings of PercentStrs
strip_percent(percent_str) ==
    CASE percent_str = "50.0%" -> "50.0"
      [] percent_str = "N/A%" -> "N/A"

\* float(): the number, or ValueError for a text that is not one
float(text) ==
    IF text = "50.0" THEN [ok |-> TRUE, value |-> 50]
    ELSE [ok |-> FALSE, err |-> EFloat]

\* the engine reports 'downloading': the percentage is parsed and written;
\* a ValueError of float() leaves the hook and ydl.download and reaches the
\* except clause of line 161
progress_hook_downloading(j, percent_str) ==
    /\ task[j].pc = "engine"
    /\ task[j].ticks < MaxTicks
    /\ LET progress == float(strip_percent(percent_str))
       IN  IF progress.ok
           THEN /\ jobs' = WriteProgress(jobs, j, progress.value)
                /\ task' = [task EXCEPT ![j].ticks = @ + 1]
           ELSE /\ task' = [task EXCEPT ![j].ticks = @ + 1,
                                        ![j].pc = "except",
                                        ![j].err = progress.err]
                /\ UNCHANGED jobs
    /\ resp' = NoResp
    /\ UNCHANGED <<test_mode, max_duration, now, nreq, upd, limiter, history>>

\* the engine reports 'finished'
progress_hook_finished(j, name) ==
    /\ task[j].pc = "engine"
    /\ jobs' = WriteFinished(jobs, j, name)
    /\ task' = [task EXCEPT ![j].pc = "engine_finished",
                            ![j].downloaded_file = name]
    /\ resp' = NoResp
    /\ UNCHANGED <<test_mode, max_duration, now, nreq, upd, limiter, history>>

\* ydl.download raises: the except clause records the failure and re-raises
download_raises(j) ==
    /\ task[j].pc \in {"engine", "engine_finished"}
    /\ jobs' = WriteExcept(jobs, j, EEngine)
    /\ task' = [task EXCEPT ![j] = Raised(task[j], ErrDownloading(EEngine))]
    /\ resp' = NoResp
    /\ UNCHANGED <<test_mode, max_duration, now, nreq, upd, limiter, history>>

\* ydl.download returns; lines 154-160: the file check.  exists is what
\* os.path.exists answers for a non-empty name.
download_returns(j, exists) ==
    /\ task[j].pc \in {"engine", "engine_finished"}
    /\ IF FileFound(task[j].downloaded_file, exists)
       THEN /\ task' = [task EXCEPT ![j] = Returned(task[j])]
            /\ UNCHANGED jobs
       ELSE /\ jobs' = WriteNoFile(jobs, j)
            /\ task' = [task EXCEPT ![j].pc = "except", ![j].err = ENoFile]
    /\ resp' = NoResp
    /\ UNCHANGED <<test_mode, max_duration, now, nreq, upd, limiter, history>>

\* lines 161-166: the except clause after the file check or the hook raised
download_video_except(j) ==
    /\ task[j].pc = "except"
    /\ jobs' = WriteExcept(jobs, j, task[j].err)
    /\ task' = [task EXCEPT ![j] = Raised(task[j], ErrDownloading(task[j].err))]
    /\ resp' = NoResp
    /\ UNCHANGED <<test_mode, max_duration, now, nreq, upd, limiter, history>>

(* ------------------------------ download_video_async -------------------- *)

\* One whole run of download_video, as download_video_async makes it: a
\* coroutine without an await runs to the end on the event loop, so no
\* handler runs in between.  run says what the environment does:
\*   oserror   open() of the placeholder raises
\*   ticks     the percentages of the 'downloading' events, in order
\*   finished  the name of the 'finished' event, "None" when there is none
\*   raises    ydl.download raises
\*   exists    the answer of os.path.exists
TickSeqs(n) ==
    UNION {[1..k -> Percents] : k \in 0..n}

Runs ==
    IF test_mode
    THEN [oserror : BOOLEAN, ticks : {<<>>}, finished : {"None"},
          raises : {FALSE}, exists : {FALSE}]
    ELSE [oserror : {FALSE}, ticks : TickSeqs(MaxTicks),
          finished : {"None"} \cup FinishedNames, raises : BOOLEAN,
          exists : BOOLEAN]

RECURSIVE WriteTicks(_, _, _)
WriteTicks(js, j, ticks) ==
    IF ticks = <<>> THEN js
    ELSE WriteTicks(WriteProgress(js, j, Head(ticks)), j, Tail(ticks))

\* the store after download_video(url, j) and the message of the exception
\* it raised ("" when it returned)
RunDownloadVideo(js, j, url, run) ==
    IF ~validate_youtube_url(url) THEN [js |-> js, exc |-> EInvalidUrl]
    ELSE
    LET js1 == WriteInit(js, j, url)
        js2 == WriteTicks(js1, j, run.ticks)
        js3 == IF run.finished = "None" THEN js2
               ELSE WriteFinished(js2, j, run.finished)
    IN  IF test_mode
        THEN IF run.oserror THEN [js |-> js1, exc |-> EDisk]
             ELSE [js |-> WriteTestCompleted(js1, j), exc |-> ""]
        ELSE IF run.raises
        THEN [js |-> WriteExcept(js3, j, EEngine), exc |-> ErrDownloading(EEngine)]
        ELSE IF FileFound(run.finished, run.exists)
        THEN [js |-> js3, exc |-> ""]
        ELSE [js |-> WriteExcept(WriteNoFile(js3, j), j, ENoFile),
              exc |-> ErrDownloading(ENoFile)]

\* YouTubeService.download_video_async(url) with job_id=None; resp is the
\* dictionary it returns
download_video_async(url) ==
    /\ nreq < MaxRequests
    /\ nreq' = nreq + 1
    /\ UNCHANGED <<task, test_mode, max_duration, now, upd, limiter, history>>
    /\ \E j \in FreshIds, eng \in EngineInfos :
        LET info == get_video_info(url, eng) IN
        IF ~info.ok
        THEN /\ jobs' = update_job_status(jobs, j, FAILED,
                                          [error_details |-> info.err])
             /\ resp' = [op |-> "download_video_async", url |-> url,
                         code |-> 0, job_id |-> j, status |-> FAILED,
                         detail |-> info.err, metadata_failed |-> TRUE]
        ELSE \E run \in Runs :
             LET js0 == update_job_status(jobs, j, PENDING,
                                          [url |-> url, metadata |-> info.md])
                 out == RunDownloadVideo(js0, j, url, run)
             IN  IF out.exc # ""
                 THEN /\ jobs' = update_job_status(out.js, j, FAILED,
                                                   [error_details |-> out.exc])
                      /\ resp' = [op |-> "download_video_async", url |-> url,
                                  code |-> 0, job_id |-> j, status |-> FAILED,
                                  detail |-> out.exc, metadata_failed |-> FALSE]
                 ELSE /\ jobs' = out.js
                      /\ resp' = [op |-> "download_video_async", url |-> url,
                                  code |-> 0, job_id |-> j, status |-> COMPLETED,
                                  file_path |-> out.js[j].file_path,
                                  metadata_failed |-> FALSE]

(* ------------------------------ update_job_status, by statement --------- *)

\* update_job_status takes no lock, so a thread switch can fall between its
\* membership test and its write.  The write itself is one dictionary
\* operation (dict.update, or the item assignment) and is not split.

\* line 37: if job_id in self.jobs
update_job_status_test(t) ==
    /\ upd.thr[t].pc = "test"
    /\ upd' = [upd EXCEPT !.thr[t].pc = "write",
                          !.thr[t].seen = upd.thr[t].job_id \in DOMAIN jobs]
    /\ resp' = NoResp
    /\ UNCHANGED <<jobs, task, test_mode, max_duration, now, nreq, limiter, history>>

\* lines 38-41: self.jobs[job_id].update({'status': status, **kwargs})
update_job_status_update(t) ==
    LET c == upd.thr[t] IN
    /\ c.pc = "write"
    /\ c.seen
    /\ jobs' = [jobs EXCEPT ![c.job_id] =
                    Merge(jobs[c.job_id], Merge(c.kwargs, [status |-> c.status]))]
    /\ upd' = [upd EXCEPT !.thr[t].pc = "done"]
    /\ resp' = NoResp
    /\ UNCHANGED <<task, test_mode, max_duration, now, nreq, limiter, history>>

\* lines 42-46: self.jobs[job_id] = {'status': status, **kwargs}
update_job_status_assign(t) ==
    LET c == upd.thr[t] IN
    /\ c.pc = "write"
    /\ ~c.seen
    /\ jobs' = [k \in (DOMAIN jobs) \cup {c.job_id} |->
                    IF k = c.job_id THEN Merge(c.kwargs, [status |-> c.status])
                    ELSE jobs[k]]
    /\ upd' = [upd EXCEPT !.thr[t].pc = "done"]
    /\ resp' = NoResp
    /\ UNCHANGED <<task, test_mode, max_duration, now, nreq, limiter, history>>

\* the stores the two calls start from: empty, or one accepted request
StartStores ==
    { [k \in {} |-> 0],
      WriteCreate([k \in {} |-> 0], "j1", UrlShort, TestMetadata, 0) }

\* the calls the two threads make
Calls ==
    [pc : {"test"}, job_id : JobIds, status : DownloadStatus,
     kwargs : KwargsSamples, seen : {FALSE}]

\* both threads have entered update_job_status and neither has run its
\* first statement
InitUpdate ==
    /\ jobs \in StartStores
    /\ task = [j \in JobIds |-> NoTask]
    /\ test_mode = FALSE
    /\ max_duration = 60
    /\ now = 0
    /\ nreq = 0
    /\ resp = NoResp
    /\ upd \in [start : {jobs}, thr : [Threads -> Calls]]
    /\ limiter = RateLimitMiddleware(DefaultRequestsPerMinute)
    /\ history = <<>>

NextUpdate ==
    \/ \E t \in Threads : update_job_status_test(t)
    \/ \E t \in Threads : update_job_status_update(t)
    \/ \E t \in Threads : update_job_status_assign(t)

\* two overlapping calls of update_job_status
SpecUpdate == InitUpdate /\ [][NextUpdate]_vars

(* ------------------------------ fallback strategy ------------------------ *)

\* test_connectivity.py calls service.get_video_info_with_fallback(ids); the
\* method itself is not in the source tree, so the strategy is written from
\* section 4.4 of the specification (tryInOrder), with get_video_info as op.

\* candidates in one call
MaxCandidates == 3

\* the delay between two attempts
FallbackDelay == 2

\* a candidate: its URL and what the engine does when asked about it
Candidates == [url : {UrlWatch, UrlFtp}, eng : EngineInfos]

CandidateLists == UNION {[1..n -> Candidates] : n \in 1..MaxCandidates}

\* the aggregate failure, wrapping one underlying failure
AggregateFallbackFailure(e) == [kind |-> "AggregateFallbackFailure", cause |-> e]

\* tryInOrder that goes on after a success and returns the last one
RECURSIVE tryInOrder_NoShortCircuit(_, _, _)
tryInOrder_NoShortCircuit(cands, i, acc) ==
    IF i > Len(cands)
    THEN IF acc.found > 0
         THEN [ok |-> TRUE, index |-> acc.found, value |-> acc.value,
               failed |-> acc.failed, waited |-> acc.waited, tried |-> i - 1]
         ELSE [ok |-> FALSE, err |-> AggregateFallbackFailure(acc.last),
               failed |-> acc.failed, waited |-> acc.waited, tried |-> i - 1]
    ELSE LET r == get_video_info(cands[i].url, cands[i].eng) IN
         IF r.ok
         THEN tryInOrder_NoShortCircuit(cands, i + 1,
                  [acc EXCEPT !.found = i, !.value = r.md])
         ELSE tryInOrder_NoShortCircuit(cands, i + 1,
                  [acc EXCEPT !.failed = @ + 1, !.last = r.err,
                              !.waited = IF i < Len(cands)
                                         THEN @ + FallbackDelay ELSE @])

\* tryInOrder that surfaces the first failure instead of the last
RECURSIVE tryInOrder_FirstFailure(_, _, _)
tryInOrder_FirstFailure(cands, i, acc) ==
    IF i > Len(cands)
    THEN [ok |-> FALSE, err |-> AggregateFallbackFailure(acc.last),
          failed |-> acc.failed, waited |-> acc.waited, tried |-> i - 1]
    ELSE LET r == get_video_info(cands[i].url, cands[i].eng) IN
         IF r.ok
         THEN [ok |-> TRUE, index |-> i, value |-> r.md,
               failed |-> acc.failed, waited |-> acc.waited, tried |-> i]
         ELSE tryInOrder_FirstFailure(cands, i + 1,
                  [acc EXCEPT !.failed = @ + 1,
                              !.last = IF acc.failed = 0 THEN r.err ELSE @,
                              !.waited = IF i < Len(cands)
                                         THEN @ + FallbackDelay ELSE @])

\* tryInOrder(candidates, op) from candidate i on: op is applied in order,
\* the first success is returned at once, a failure is followed by the delay
\* unless it was the last candidate's, and when all have failed the aggregate
\* failure wraps the last one
RECURSIVE tryInOrder(_, _, _)
tryInOrder(cands, i, acc) ==
    IF i > Len(cands)
    THEN [ok |-> FALSE, err |-> AggregateFallbackFailure(acc.last),
          failed |-> acc.failed, waited |-> acc.waited, tried |-> i - 1]
    ELSE LET r == get_video_info(cands[i].url, cands[i].eng) IN
         IF r.ok
         THEN [ok |-> TRUE, index |-> i, value |-> r.md,
               failed |-> acc.failed, waited |-> acc.waited, tried |-> i]
         ELSE tryInOrder(cands, i + 1,
                  [acc EXCEPT !.failed = @ + 1, !.last = r.err,
                              !.waited = IF i < Len(cands)
                                         THEN @ + FallbackDelay ELSE @])

\* nothing tried yet
NoAttempts == [failed |-> 0, waited |-> 0, last |-> "", found |-> 0,
               value |-> TestMetadata]

\* service.get_video_info_with_fallback(candidates), one call on a fresh
\* service
get_video_info_with_fallback(cands) ==
    /\ nreq = 0
    /\ nreq' = nreq + 1
    /\ resp' = [op |-> "fallback", code |-> 0, candidates |-> cands,
                out |-> tryInOrder(cands, 1, NoAttempts)]
    /\ UNCHANGED <<jobs, task, test_mode, max_duration, now, upd, limiter, history>>

NextFallback ==
    \E cands \in CandidateLists : get_video_info_with_fallback(cands)

\* calls of the fallback strategy on a fresh service
SpecFallback == Init /\ [][NextFallback]_vars

(* ------------------------------ the validators on their own -------------- *)

\* strings given to the validators, as token sequences: schemes, subdomains,
\* hosts with paths, identifiers of 10, 11 and 12 characters, and what may
\* follow the identifier
UrlStrings ==
    { s \o <<"://">> \o sub \o hp \o <<id>> \o tl :
        s \in {<<"http">>, <<"https">>, <<"ftp">>},
        sub \in {<<>>, <<"www.">>, <<"m.">>, <<"www.", "m.">>},
        hp \in { <<"youtube.com/", "watch?v=">>, <<"youtube.com/", "embed/">>,
                 <<"youtube.com/", "v/">>, <<"youtu.be/">>,
                 <<"youtube.com/", "shorts/">> },
        id \in {"ID10", "ID11", "ID12"},
        tl \in {<<>>, <<"\n">>, <<"&t=1">>} }

\* one call of each validator on the same string; the validators keep no
\* state, so one call in a behaviour is all there is to see
validate_both(url) ==
    /\ nreq = 0
    /\ nreq' = nreq + 1
    /\ resp' = [op |-> "validate", code |-> 0, url |-> url,
                service |-> validate_youtube_url(url),
                model |-> RequestModelAccepts(url)]
    /\ UNCHANGED <<jobs, task, test_mode, max_duration, now, upd, limiter, history>>

NextValidate == \E url \in UrlStrings : validate_both(url)

\* the two validators as pure functions of their argument
SpecValidate == Init /\ [][NextValidate]_vars

(* ------------------------------ direct calls of the service -------------- *)

\* the URL of tests/test_youtube.py: 'https://www.youtube.com/watch?v=test',
\* whose identifier has 4 characters
UrlTest == <<"https", "://", "www.", "youtube.com/", "watch?v=", "test">>

DirectUrls == Urls \cup {UrlTest}

\* service.get_video_info(url) with the engine patched to do eng
get_video_info_call(url, eng) ==
    /\ nreq < MaxRequests
    /\ nreq' = nreq + 1
    /\ resp' = [op |-> "get_video_info", code |-> 0, url |-> url, eng |-> eng,
                out |-> get_video_info(url, eng)]
    /\ UNCHANGED <<jobs, task, test_mode, max_duration, now, upd, limiter, history>>

\* service.download_video(url) with job_id=None and the engine patched to do
\* run; exc is the message of the exception it raised, "" when it returned
download_video_call(url) ==
    /\ nreq < MaxRequests
    /\ nreq' = nreq + 1
    /\ \E j \in FreshIds, run \in Runs :
        LET out == RunDownloadVideo(jobs, j, url, run) IN
        /\ jobs' = out.js
        /\ resp' = [op |-> "download_video", code |-> 0, url |-> url,
                    job_id |-> j, run |-> run, exc |-> out.exc]
    /\ UNCHANGED <<task, test_mode, max_duration, now, upd, limiter, history>>

NextDirect ==
    \/ \E url \in DirectUrls, eng \in EngineInfos : get_video_info_call(url, eng)
    \/ \E url \in DirectUrls : download_video_call(url)

\* the service called directly, as its unit tests call it
SpecDirect == Init /\ [][NextDirect]_vars

(* ------------------------------ the application of main.py --------------- *)

\* the headers SecurityHeadersMiddleware.dispatch sets
SecurityHeaders ==
    [ x_content_type_options |-> "nosniff",
      x_frame_options |-> "DENY",
      x_xss_protection |-> "1; mode=block",
      strict_transport_security |-> "max-age=31536000; includeSubDomains",
      referrer_policy |-> "strict-origin-when-cross-origin",
      content_security_policy |-> "default-src 'self'" ]

\* SecurityHeadersMiddleware.dispatch on the headers of the inner response
SecurityHeadersMiddleware(headers) == Merge(headers, SecurityHeaders)

\* the middleware main.py adds to app
AppMiddleware == {"CORSMiddleware"}

\* the headers of a response after the middleware stack of app
AppHeaders(headers) ==
    IF "SecurityHeadersMiddleware" \in AppMiddleware
    THEN SecurityHeadersMiddleware(headers)
    ELSE headers

\* the domains network_health_check probes
YoutubeDomains == {"www.youtube.com", "youtube.com", "i.ytimg.com", "www.googleapis.com"}

\* the bodies the four routes of app can answer with
AppBodies ==
    {[path |-> "/", message |-> "AI YouTube Shorts SaaS API"]}
    \cup {[path |-> "/api/v1/health", status |-> "healthy"]}
    \cup {[path |-> "/api/v1/health/network", accessible |-> acc,
           yt_dlp_available |-> y,
           status |-> IF acc # {} /\ y THEN "healthy"
                      ELSE IF acc # {} THEN "partial" ELSE "unhealthy"] :
            acc \in SUBSET YoutubeDomains, y \in BOOLEAN}
    \cup {[path |-> "/api/v1/health/youtube", service_available |-> TRUE,
           download_path_exists |-> e, status |-> "healthy"] : e \in BOOLEAN}
    \cup {[path |-> "/api/v1/health/youtube", service_available |-> FALSE,
           status |-> "unhealthy"]}

\* a GET on one of the routes of app
app_get(body) ==
    /\ nreq < MaxRequests
    /\ nreq' = nreq + 1
    /\ resp' = [op |-> "get", code |-> 200, path |-> body.path, body |-> body,
                headers |-> AppHeaders([content_type |-> "application/json"])]
    /\ UNCHANGED <<jobs, task, test_mode, max_duration, now, upd, limiter, history>>

NextApp == \E body \in AppBodies : app_get(body)

\* requests to the application object of main.py
SpecApp == Init /\ [][NextApp]_vars

(* ------------------------------ SecurityManager tokens -------------------- *)

\* In this part the clock now counts ticks of a fraction of a second:
\* datetime.now() has sub-second resolution, the exp claim of a token has not.
TicksPerSecond == 2

\* the last tick of the clock
MaxClock == 6

\* SecurityManager.expire_minutes (default of __init__)
expire_minutes == 30

\* timedelta(minutes=...) in ticks
Minutes(m) == m * 60 * TicksPerSecond

\* the expires_delta argument: absent (None) or a timedelta, in ticks
ExpiresDeltas ==
    {[given |-> FALSE, ticks |-> 0]}
        \cup {[given |-> TRUE, ticks |-> d] : d \in {-2, 0, 1, 2, 3}}

\* the data argument: a caller's dictionary, one of them with its own exp
TokenData == { [user_id |-> "123"], [user_id |-> "123", exp |-> 0] }

\* jose.jwt.encode: a datetime in exp becomes whole seconds (timegm of the
\* time tuple); the signature is that of the manager's own key
jwt_encode(claims) == [claims EXCEPT !.exp = @ \div TicksPerSecond]

\* jose.jwt.decode at clock t: the signature is the manager's own; the token
\* is expired when exp < the current time in whole seconds
jwt_decode(token, t) ==
    IF token.exp < t \div TicksPerSecond
    THEN [ok |-> FALSE, err |-> "Signature has expired."]
    ELSE [ok |-> TRUE, payload |-> token]

\* create_access_token that updates the caller's dictionary in place
create_access_token_no_copy(data, expires_delta, t) ==
    LET expire == IF expires_delta.given /\ expires_delta.ticks # 0
                  THEN t + expires_delta.ticks
                  ELSE t + Minutes(expire_minutes)
        to_encode == Merge(data, [exp |-> expire])
    IN  [token |-> jwt_encode(to_encode), data |-> to_encode]

\* SecurityManager.create_access_token at clock t: the token and the caller's
\* dictionary after the call.  "if expires_delta:" is false for None and for
\* a zero timedelta.
create_access_token(data, expires_delta, t) ==
    LET expire == IF expires_delta.given /\ expires_delta.ticks # 0
                  THEN t + expires_delta.ticks
                  ELSE t + Minutes(expire_minutes)
        to_encode == Merge(data, [exp |-> expire])
    IN  [token |-> jwt_encode(to_encode), data |-> data]

\* SecurityManager.verify_token at clock t: the payload, or 401
verify_token(token, t) ==
    LET d == jwt_decode(token, t) IN
    IF d.ok THEN [ok |-> TRUE, code |-> 200, payload |-> d.payload]
    ELSE [ok |-> FALSE, code |-> 401, detail |-> "Could not validate credentials"]

\* a caller creates a token
create_access_token_call(data, expires_delta) ==
    /\ resp.op = "none"
    /\ LET out == create_access_token(data, expires_delta, now) IN
       resp' = [op |-> "token", code |-> 0, data |-> data,
                expires_delta |-> expires_delta, created |-> now,
                token |-> out.token, data_after |-> out.data]
    /\ UNCHANGED <<jobs, task, test_mode, max_duration, now, nreq, upd, limiter, history>>

\* the caller verifies the token it holds
verify_token_call ==
    /\ resp.op \in {"token", "verified"}
    /\ resp' = [resp EXCEPT !.op = "verified"] @@
               [at |-> now, out |-> verify_token(resp.token, now)]
    /\ UNCHANGED <<jobs, task, test_mode, max_duration, now, nreq, upd, limiter, history>>

\* time passes
clock_tick ==
    /\ now < MaxClock
    /\ now' = now + 1
    /\ resp' = IF resp.op = "verified" THEN [resp EXCEPT !.op = "token"] ELSE resp
    /\ UNCHANGED <<jobs, task, test_mode, max_duration, nreq, upd, limiter, history>>

NextToken ==
    \/ \E data \in TokenData, d \in ExpiresDeltas : create_access_token_call(data, d)
    \/ verify_token_call
    \/ clock_tick

\* one token of a SecurityManager, created and verified as time passes
SpecToken == Init /\ [][NextToken]_vars

(* ------------------------------ rate limiter ---------------------------- *)

\* the limits a RateLimitMiddleware is constructed with here
RateLimits == {1, 2}

\* time.time() is read in whole seconds; the clock moves in steps of 30
\* seconds up to MaxTime, so that two readings are 0, 30, 60 or more seconds
\* apart, and MaxDispatched requests are followed
MaxTime == 120
MaxDispatched == 4
ClockSteps == {30}

\* the length of the window, in seconds
Window == 60

\* the timestamps of a list that are less than Window old at current_time
CleanOld(reqs, current_time) ==
    SelectSeq(reqs, LAMBDA req_time : current_time - req_time < Window)

\* variant: one list of timestamps shared by all clients
RateLimit_shared(lim, client_ip, current_time) ==
    LET all     == IF "shared" \in DOMAIN lim.requests
                   THEN CleanOld(lim.requests["shared"], current_time)
                   ELSE <<>>
        table(l) == [c \in {"shared"} |-> l]
    IN  IF Len(all) >= lim.requests_per_minute
        THEN [limiter  |-> [lim EXCEPT !.requests = table(all)],
              admitted |-> FALSE]
        ELSE [limiter  |-> [lim EXCEPT !.requests = table(Append(all, current_time))],
              admitted |-> TRUE]

\* variant: the limit is tested with > in place of >=
RateLimit_off_by_one(lim, client_ip, current_time) ==
    LET cleaned == IF client_ip \in DOMAIN lim.requests
                   THEN CleanOld(lim.requests[client_ip], current_time)
                   ELSE <<>>
        table(l) == [c \in DOMAIN lim.requests \cup {client_ip} |->
                        IF c = client_ip THEN l ELSE lim.requests[c]]
    IN  IF Len(cleaned) > lim.requests_per_minute
        THEN [limiter  |-> [lim EXCEPT !.requests = table(cleaned)],
              admitted |-> FALSE]
        ELSE [limiter  |-> [lim EXCEPT !.requests = table(Append(cleaned, current_time))],
              admitted |-> TRUE]

\* variant: a rejected request is recorded too, in place of the oldest one
RateLimit_records_rejected(lim, client_ip, current_time) ==
    LET cleaned == IF client_ip \in DOMAIN lim.requests
                   THEN CleanOld(lim.requests[client_ip], current_time)
                   ELSE <<>>
        table(l) == [c \in DOMAIN lim.requests \cup {client_ip} |->
                        IF c = client_ip THEN l ELSE lim.requests[c]]
    IN  IF Len(cleaned) >= lim.requests_per_minute
        THEN [limiter  |-> [lim EXCEPT !.requests =
                               table(Append(Tail(cleaned), current_time))],
              admitted |-> FALSE]
        ELSE [limiter  |-> [lim EXCEPT !.requests = table(Append(cleaned, current_time))],
              admitted |-> TRUE]

\* RateLimitMiddleware.dispatch up to call_next: clean the client's list,
\* create it if absent, reject at the limit, otherwise record the request
RateLimit(lim, client_ip, current_time) ==
    LET cleaned == IF client_ip \in DOMAIN lim.requests
                   THEN CleanOld(lim.requests[client_ip], current_time)
                   ELSE <<>>
        table(l) == [c \in DOMAIN lim.requests \cup {client_ip} |->
                        IF c = client_ip THEN l ELSE lim.requests[c]]
    IN  IF Len(cleaned) >= lim.requests_per_minute
        THEN [limiter  |-> [lim EXCEPT !.requests = table(cleaned)],
              admitted |-> FALSE]
        ELSE [limiter  |-> [lim EXCEPT !.requests = table(Append(cleaned, current_time))],
              admitted |-> TRUE]

\* a request of client_ip passes through the middleware at the present time:
\* call_next answers it (200) or HTTPException(429) is raised; history keeps
\* what happened to each request
dispatch(client_ip) ==
    LET r == RateLimit(limiter, client_ip, now)
    IN  /\ Len(history) < MaxDispatched
        /\ limiter' = r.limiter
        /\ history' = Append(history, [client |-> client_ip, at |-> now,
                                       admitted |-> r.admitted])
        /\ resp' = IF r.admitted
                   THEN [op |-> "dispatch", code |-> 200, client |-> client_ip]
                   ELSE [op |-> "dispatch", code |-> 429, client |-> client_ip,
                         detail |-> "Rate limit exceeded"]
        /\ UNCHANGED <<jobs, task, test_mode, max_duration, now, nreq, upd>>

\* time passes between two requests
time_passes ==
    /\ now < MaxTime
    /\ \E step \in ClockSteps : now' = now + step
    /\ resp' = NoResp
    /\ UNCHANGED <<jobs, task, test_mode, max_duration, nreq, upd, limiter, history>>

InitRate ==
    /\ jobs = [k \in {} |-> 0]
    /\ task = [j \in JobIds |-> NoTask]
    /\ test_mode = FALSE
    /\ max_duration = 60
    /\ now = 0
    /\ nreq = 0
    /\ resp = NoResp
    /\ upd = NoCalls
    /\ limiter \in {RateLimitMiddleware(n) : n \in RateLimits}
    /\ history = <<>>

NextRate ==
    \/ \E client_ip \in Clients : dispatch(client_ip)
    \/ time_passes

\* requests of two clients passing through one RateLimitMiddleware
SpecRate == InitRate /\ [][NextRate]_vars

(* ------------------------------ specification --------------------------- *)

Next ==
    \/ \E url \in Urls : download_youtube_video(url)
    \/ \E j \in JobIds : cancel_job(j)
    \/ \E enable \in BOOLEAN : toggle_test_mode(enable)
    \/ \E j \in JobIds : get_download_status(j)
    \/ list_jobs
    \/ \E url \in Urls : get_video_metadata(url)
    \/ \E j \in JobIds : download_video_init(j)
    \/ \E j \in JobIds, oserror \in BOOLEAN : download_video_test_mode(j, oserror)
    \/ \E j \in JobIds, s \in PercentStrs : progress_hook_downloading(j, s)
    \/ \E j \in JobIds, name \in FinishedNames : progress_hook_finished(j, name)
    \/ \E j \in JobIds : download_raises(j)
    \/ \E j \in JobIds, exists \in BOOLEAN : download_returns(j, exists)
    \/ \E j \in JobIds : download_video_except(j)

\* the HTTP surface and the background tasks it schedules
Spec == Init /\ [][Next]_vars

\* Spec with the scheduling the thread pool gives: a statement of
\* download_video that can run does run.  What the engine does inside
\* ydl.download (events, return, raise) is the network's doing and download_video
\* sets no timeout on it, so those steps carry no fairness.
SpecLive ==
    /\ Spec
    /\ \A j \in JobIds :
          /\ WF_vars(download_video_init(j))
          /\ WF_vars(\E oserror \in BOOLEAN : download_video_test_mode(j, oserror))
          /\ WF_vars(download_video_except(j))

\* the same, with direct calls of the service's download_video_async
NextService ==
    \/ Next
    \/ \E url \in Urls : download_video_async(url)

SpecService == Init /\ [][NextService]_vars

(* ------------------------------ properties ------------------------------ *)

Present(j, field) == Has(j) /\ field \in DOMAIN jobs[j]

\* C1: once a job is Completed with a file path, no later step changes its
\* status or its file path.
C1_CompletedIsFinal ==
    [][\A j \in DOMAIN jobs :
        (jobs[j].status = COMPLETED /\ Present(j, "file_path"))
            => /\ jobs'[j].status = COMPLETED
               /\ jobs'[j].file_path = jobs[j].file_path]_vars

\* C2: once a job is Failed with error details, no later step changes its
\* status or its error details.
C2_FailedIsFinal ==
    [][\A j \in DOMAIN jobs :
        (jobs[j].status = FAILED /\ Present(j, "error_details"))
            => /\ jobs'[j].status = FAILED
               /\ jobs'[j].error_details = jobs[j].error_details]_vars

\* C3: a record has a file path exactly when its status is Completed.
C3_FilePathIffCompleted ==
    \A j \in DOMAIN jobs :
        Present(j, "file_path") <=> jobs[j].status = COMPLETED

\* C4: a record has error details exactly when its status is Failed.
C4_ErrorDetailsIffFailed ==
    \A j \in DOMAIN jobs :
        Present(j, "error_details") <=> jobs[j].status = FAILED

\* C5: a status change of a non-terminal job follows an edge of the state
\* machine: Pending to InProgress or Failed; InProgress to Completed or Failed.
C5_TransitionsFollowEdges ==
    [][\A j \in DOMAIN jobs :
        /\ jobs[j].status = PENDING
              => jobs'[j].status \in {PENDING, IN_PROGRESS, FAILED}
        /\ jobs[j].status = IN_PROGRESS
              => jobs'[j].status \in {IN_PROGRESS, COMPLETED, FAILED}]_vars

\* C6: when the background unit of a job has ended, by return or by raise,
\* the job is Completed or Failed, and a Failed job has non-empty error
\* details.
C6_EndedJobIsTerminal ==
    \A j \in JobIds :
        task[j].pc = "done"
            => /\ Has(j)
               /\ jobs[j].status \in {COMPLETED, FAILED}
               /\ jobs[j].status = FAILED
                     => Present(j, "error_details") /\ jobs[j].error_details # ""

\* C7: no background unit ends by an exception leaving download_video.
C7_NoFailureEscapes ==
    \A j \in JobIds : task[j].result # "raised"

\* C8: POST /download answers 200 exactly for a valid URL whose metadata fetch
\* succeeded, and as it answers the store holds the job of the returned id
\* with status Pending, the requested URL and the fetched metadata; the
\* response reports Pending.
C8_AcceptedDownloadIsPending ==
    resp.op = "download" =>
        /\ resp.code = 200 <=> (validate_youtube_url(resp.url) /\ ~resp.metadata_failed)
        /\ resp.code = 200 =>
              /\ Has(resp.job_id)
              /\ resp.status = PENDING
              /\ jobs[resp.job_id].status = PENDING
              /\ jobs[resp.job_id].url = resp.url
              /\ Present(resp.job_id, "metadata")
              /\ jobs[resp.job_id].metadata = resp.metadata

C8_Witness ==
    /\ resp.op = "download"
    /\ resp.code = 200
    /\ resp.metadata.title = "Engine Title"
    /\ jobs[resp.job_id].status = PENDING

\* C9: a download request whose URL fails validation is answered with a 4xx
\* code and changes neither the store nor the scheduled tasks.
C9_InvalidUrlRejected ==
    [][(resp'.op = "download" /\ ~validate_youtube_url(resp'.url))
        => /\ resp'.code \in 400..499
           /\ jobs' = jobs
           /\ task' = task]_vars

C9_Witness ==
    /\ resp.op = "download"
    /\ ~validate_youtube_url(resp.url)
    /\ resp.code = 422
    /\ DOMAIN jobs # {}

\* C10: a download whose metadata fetch fails leaves no record behind, for
\* POST /download and for download_video_async.
C10_MetadataFailureNoJob ==
    [][(resp'.op \in {"download", "download_video_async"} /\ resp'.metadata_failed)
        => jobs' = jobs]_vars

\* C11: a status query answers 404 exactly when the store holds no record
\* for the id, and it changes neither the store nor the tasks.
C11_StatusNotFoundIffAbsent ==
    [][resp'.op = "status"
        => /\ resp'.code = 404 <=> resp'.job_id \notin DOMAIN jobs
           /\ resp'.code \in {200, 404}
           /\ jobs' = jobs
           /\ task' = task]_vars

C11_Witness ==
    /\ resp.op = "status"
    /\ resp.code = 404
    /\ DOMAIN jobs # {}

\* C12: a cancel request for an id that is not in the store answers 404 and
\* leaves the store as it was.
C12_CancelUnknownIsNotFound ==
    [][(resp'.op = "cancel" /\ resp'.job_id \notin DOMAIN jobs)
        => /\ resp'.code = 404
           /\ jobs' = jobs]_vars

C12_Witness ==
    /\ resp.op = "cancel"
    /\ resp.code = 404
    /\ resp.job_id \notin DOMAIN jobs
    /\ DOMAIN jobs # {}

C14_CancelDoesNotInterrupt ==
    [][resp'.op = "cancel" => task' = task]_vars

\* a job cancelled while its download was inside the engine (the cancel
\* reason is still in the record) that the unit then wrote Completed
C14_Witness ==
    \E j \in DOMAIN jobs :
        /\ task[j].pc = "done"
        /\ task[j].result = "returned"
        /\ jobs[j].status = COMPLETED
        /\ Present(j, "error_details")
        /\ jobs[j].error_details = ECancelled
        /\ jobs[j].file_path = "video.mp4"

\* C15: on every reachable store and for every id, status and keyword
\* arguments, update_job_status sets the status and the named fields, keeps
\* every other field of the record and every other record, and for an absent
\* id makes a record of the status and the named fields only.
C15_UpdateFrame ==
    \A j \in JobIds, st \in DownloadStatus, kw \in KwargsSamples :
        LET r == update_job_status(jobs, j, st, kw)
            named == (DOMAIN kw) \cup {"status"}
        IN  /\ DOMAIN r = (DOMAIN jobs) \cup {j}
            /\ \A k \in (DOMAIN jobs) \ {j} : r[k] = jobs[k]
            /\ r[j].status = st
            /\ \A f \in DOMAIN kw : r[j][f] = kw[f]
            /\ IF j \in DOMAIN jobs
               THEN /\ DOMAIN r[j] = (DOMAIN jobs[j]) \cup named
                    /\ \A f \in (DOMAIN jobs[j]) \ named : r[j][f] = jobs[j][f]
               ELSE DOMAIN r[j] = named

\* two records, one of them updated by a progress tick after its creation
C15_Witness ==
    \E j, k \in DOMAIN jobs :
        /\ j # k
        /\ jobs[j].status = IN_PROGRESS
        /\ Present(j, "progress")
        /\ Present(j, "metadata")
        /\ Present(j, "created_at")
        /\ jobs[k].status = PENDING

\* C16: the write by which download_video initialises its job (line 110),
\* made under an id that is already in the store, leaves the existing record
\* unchanged: it neither overwrites nor merges into it.
C16_CreateOnExistingUnchanged ==
    [][\A j \in DOMAIN jobs :
        (task[j].pc = "start" /\ task'[j].pc \in {"test_write", "engine"})
            => jobs'[j] = jobs[j]]_vars

\* the store after the call c made alone on the store js
AfterCall(js, c) == update_job_status(js, c.job_id, c.status, c.kwargs)

\* C17: after two overlapping calls of update_job_status on one id, the store
\* is what the two calls give when made one after the other, in one of the
\* two orders.
C17_SameIdUpdatesSerialized ==
    LET a == upd.thr[1]
        b == upd.thr[2]
    IN  (a.pc = "done" /\ b.pc = "done" /\ a.job_id = b.job_id)
            => jobs \in { AfterCall(AfterCall(upd.start, a), b),
                          AfterCall(AfterCall(upd.start, b), a) }

\* C18: no step removes a record from the store, and the total a job listing
\* reports is the number of records in the store.
C18_StoreOnlyGrows ==
    [][/\ (DOMAIN jobs) \subseteq (DOMAIN jobs')
       /\ resp'.op = "list" =>
              /\ resp'.total_jobs = Cardinality(DOMAIN jobs')
              /\ DOMAIN resp'.jobs = DOMAIN jobs']_vars

\* a listing of a store whose one job has run to its end
C18_Witness ==
    /\ resp.op = "list"
    /\ resp.total_jobs = 1
    /\ \E j \in DOMAIN jobs : task[j].pc = "done"

\* the fields an accepted download request writes once
CreationFields == {"url", "metadata", "created_at"}

\* C19: in the record of an accepted download request, url, metadata and
\* created_at stay what they were at creation through every later step.
C19_CreationFieldsFixed ==
    [][\A j \in DOMAIN jobs :
        Present(j, "created_at") =>
            \A f \in CreationFields :
                /\ f \in DOMAIN jobs[j]
                /\ f \in DOMAIN jobs'[j]
                /\ jobs'[j][f] = jobs[j][f]]_vars

\* a job that was cancelled and then ran through the engine to its end
C19_Witness ==
    \E j \in DOMAIN jobs :
        /\ Present(j, "created_at")
        /\ Present(j, "error_details")
        /\ Present(j, "progress")
        /\ Present(j, "file_path")
        /\ task[j].pc = "done"

\* C20: a job requested while test mode was on (its metadata is the fixed
\* synthetic record) never reaches the engine, and when its background unit
\* has ended it is Completed with the path of the placeholder file.
C20_TestModeJobCompletes ==
    \A j \in DOMAIN jobs :
        (Present(j, "created_at") /\ jobs[j].metadata = TestMetadata)
            => /\ task[j].pc \notin {"engine", "engine_finished", "except"}
               /\ ~Present(j, "progress")
               /\ task[j].pc = "done"
                    => /\ task[j].result = "returned"
                       /\ jobs[j].status = COMPLETED
                       /\ Present(j, "file_path")
                       /\ jobs[j].file_path = TestPath(j)

\* C21: every metadata record returned to a download request, and every
\* metadata record stored on a job, has a duration of at most the configured
\* maximum.
C21_DurationWithinMaximum ==
    /\ \A j \in DOMAIN jobs :
          Present(j, "metadata") => jobs[j].metadata.duration <= max_duration
    /\ (resp.op = "download" /\ resp.code = 200)
          => resp.metadata.duration <= max_duration

\* C22: a job whose engine download call never returns is eventually Failed
\* with error details and stays so, instead of staying Pending or InProgress.
C22_HungDownloadFails ==
    \A j \in JobIds :
        <>[](task[j].pc = "engine")
            => <>[](/\ Has(j)
                    /\ jobs[j].status = FAILED
                    /\ Present(j, "error_details"))

\* candidate i of a call succeeds: its URL is valid and, outside test mode,
\* the engine answers with a duration within the maximum
CandidateSucceeds(c) ==
    /\ validate_youtube_url(c.url)
    /\ test_mode \/ (~c.eng.raises /\ c.eng.duration <= max_duration)

\* C23: when some candidate succeeds, the strategy returns the result of the
\* first one that does, after as many failed attempts as there are
\* candidates before it, and tries no candidate after it.
C23_FirstSuccessReturned ==
    resp.op = "fallback" =>
        LET cands == resp.candidates
            good == {i \in 1..Len(cands) : CandidateSucceeds(cands[i])}
        IN  good # {} =>
              LET first == CHOOSE i \in good : \A k \in good : i <= k IN
              /\ resp.out.ok
              /\ resp.out.index = first
              /\ resp.out.value = get_video_info(cands[first].url, cands[first].eng).md
              /\ resp.out.failed = first - 1
              /\ resp.out.tried = first

\* candidates [A, B, C]: A and B fail, C succeeds
C23_Witness ==
    /\ resp.op = "fallback"
    /\ Len(resp.candidates) = 3
    /\ ~CandidateSucceeds(resp.candidates[1])
    /\ ~CandidateSucceeds(resp.candidates[2])
    /\ CandidateSucceeds(resp.candidates[3])
    /\ resp.out.ok
    /\ resp.out.failed = 2

\* C24: when every candidate fails, the strategy fails with the aggregate
\* failure wrapping the failure of the last candidate, having waited the
\* delay once after each failed candidate but the last.
C24_AllFailWrapsLast ==
    resp.op = "fallback" =>
        LET cands == resp.candidates
            n == Len(cands)
        IN  (\A i \in 1..n : ~CandidateSucceeds(cands[i])) =>
              /\ ~resp.out.ok
              /\ resp.out.err.kind = "AggregateFallbackFailure"
              /\ resp.out.err.cause = get_video_info(cands[n].url, cands[n].eng).err
              /\ resp.out.failed = n
              /\ resp.out.waited = FallbackDelay * (n - 1)

\* three candidates fail, the first and the last for different reasons
C24_Witness ==
    /\ resp.op = "fallback"
    /\ Len(resp.candidates) = 3
    /\ ~resp.out.ok
    /\ resp.out.err.cause = ErrExtracting(ENetwork)
    /\ get_video_info(resp.candidates[1].url, resp.candidates[1].eng).err = EInvalidUrl
    /\ resp.out.waited = 4

\* the shape the claim names: http or https, at most one of the subdomains
\* www. and m., youtube.com/ with watch?v=, embed/ or v/, or youtu.be/, an
\* identifier of exactly 11 characters, and nothing after it
ClaimedShape(url) ==
    \E s \in {<<"http">>, <<"https">>},
       sub \in {<<>>, <<"www.">>, <<"m.">>},
       hp \in { <<"youtube.com/", "watch?v=">>, <<"youtube.com/", "embed/">>,
                <<"youtube.com/", "v/">>, <<"youtu.be/">> } :
        url = s \o <<"://">> \o sub \o hp \o <<"ID11">>

\* C25: the service validator answers true exactly for the strings of the
\* claimed shape, and the request-model validator accepts the same strings.
C25_ValidatorAcceptsExactlyShape ==
    resp.op = "validate" =>
        /\ resp.service <=> ClaimedShape(resp.url)
        /\ resp.model <=> resp.service

\* C26: a POST /metadata request, whatever it answers, leaves the job store
\* as it was and leaves every background task where it was.
C26_MetadataNeverDownloads ==
    [][resp'.op = "metadata" => jobs' = jobs /\ task' = task]_vars

\* a successful metadata answer while a job exists and its download is running
C26_Witness ==
    /\ resp.op = "metadata"
    /\ resp.code = 200
    /\ resp.success
    /\ \E j \in DOMAIN jobs : task[j].pc = "engine"

\* URLs of the form https://www.youtube.com/watch?v=<id>, the test's among them
TestFormUrls == {UrlWatch, UrlTest}

\* C27: for a URL of the test's form, when the engine raises get_video_info
\* raises an error whose message contains "Error extracting video info", and
\* when the engine returns a record get_video_info returns that record.
\* (The engine is the one the test patches: test mode is off, and the record
\* it returns has a duration within the maximum, as the test's 120 s.)
C27_InfoErrorWrapped ==
    (resp.op = "get_video_info" /\ resp.url \in TestFormUrls /\ ~test_mode) =>
        /\ resp.eng.raises =>
              /\ ~resp.out.ok
              /\ resp.out.err = ErrExtracting(ENetwork)
        /\ (~resp.eng.raises /\ resp.eng.duration <= max_duration) =>
              /\ resp.out.ok
              /\ resp.out.md.duration = resp.eng.duration

\* C28: for a URL of the test's form, when the engine's download call raises
\* download_video raises an error whose message contains "Error downloading
\* video" and the job it created is Failed with that message as error details.
C28_DownloadErrorRecorded ==
    (resp.op = "download_video" /\ resp.url \in TestFormUrls /\ resp.run.raises) =>
        /\ resp.exc = ErrDownloading(EEngine)
        /\ Has(resp.job_id)
        /\ jobs[resp.job_id].status = FAILED
        /\ Present(resp.job_id, "error_details")
        /\ jobs[resp.job_id].error_details = resp.exc

\* C29: every response of the application carries the six security headers
\* with the values SecurityHeadersMiddleware sets.
C29_ResponsesCarrySecurityHeaders ==
    resp.op = "get" =>
        \A h \in DOMAIN SecurityHeaders :
            /\ h \in DOMAIN resp.headers
            /\ resp.headers[h] = SecurityHeaders[h]

\* the expiry a caller of create_access_token(data, expires_delta) asked for
RequestedExpiry(created, expires_delta) ==
    IF expires_delta.given THEN created + expires_delta.ticks
    ELSE created + Minutes(expire_minutes)

\* C30: a token verifies to a payload with every field of data plus exp (the
\* token's own, which replaces an exp of data) while the clock is before its
\* expiry, is rejected with 401 once the expiry has passed, and creating it
\* leaves the caller's data as it was.
C30_TokenValidUntilExpiry ==
    /\ resp.op \in {"token", "verified"} => resp.data_after = resp.data
    /\ resp.op = "verified" =>
         LET expiry == RequestedExpiry(resp.created, resp.expires_delta) IN
         /\ resp.at < expiry =>
               /\ resp.out.ok
               /\ "exp" \in DOMAIN resp.out.payload
               /\ \A f \in (DOMAIN resp.data) \ {"exp"} :
                     /\ f \in DOMAIN resp.out.payload
                     /\ resp.out.payload[f] = resp.data[f]
         /\ resp.at > expiry => (~resp.out.ok /\ resp.out.code = 401)

(* ------------------------------ C31, C36, C37: rate limiter ------------- *)

\* the requests of client c that were admitted with a timestamp in (t - 60, t]
AdmittedIn(c, t) ==
    {i \in 1..Len(history) : /\ history[i].client = c
                             /\ history[i].admitted
                             /\ t - Window < history[i].at
                             /\ history[i].at <= t}

\* the step is a request of client c passing through the middleware
Dispatched(c) ==
    /\ Len(history') = Len(history) + 1
    /\ history'[Len(history')].client = c

\* C31: a request of a client that has fewer than requests_per_minute
\* admitted requests in the preceding 60 seconds is admitted, whatever the
\* other clients have sent
C31_AdmittedBelowLimit ==
    [][\A c \in Clients :
          (Dispatched(c) /\ Cardinality(AdmittedIn(c, now)) < limiter.requests_per_minute)
             => history'[Len(history')].admitted]_vars

\* a client is admitted while the other client has just been rejected at its limit
C31_Witness ==
    /\ Len(history) >= 2
    /\ history[Len(history)].admitted
    /\ history[Len(history)].client = "10.0.0.1"
    /\ ~history[Len(history) - 1].admitted
    /\ history[Len(history) - 1].client = "10.0.0.2"
    /\ history[Len(history) - 1].at = now

\* C36: for every client and every time t, at most requests_per_minute of
\* its requests were admitted with a timestamp in (t - 60, t]
C36_WindowNeverExceedsLimit ==
    \A c \in Clients : \A t \in 0..now :
        Cardinality(AdmittedIn(c, t)) <= limiter.requests_per_minute

\* a client has used up its limit within one window and has been rejected
C36_Witness ==
    \E c \in Clients :
        /\ Cardinality(AdmittedIn(c, now)) = limiter.requests_per_minute
        /\ resp.op = "dispatch" /\ resp.code = 429 /\ resp.client = c

\* the requests of client c recorded by the limiter
Recorded(c) == IF c \in DOMAIN limiter.requests THEN limiter.requests[c] ELSE <<>>

\* client c has been rejected since its oldest recorded request
RejectedSinceOldest(c) ==
    /\ Recorded(c) # <<>>
    /\ \E i \in 1..Len(history) : /\ history[i].client = c
                                  /\ ~history[i].admitted
                                  /\ history[i].at >= Recorded(c)[1]

\* C37: a rejected request is not recorded, and a client that was rejected
\* is admitted at its first request made once its oldest recorded request is
\* 60 seconds old, however many requests it sent in the meantime
C37_RejectionNotRecorded ==
    [][\A c \in Clients : Dispatched(c) =>
          /\ ~history'[Len(history')].admitted
                => limiter'.requests[c] = CleanOld(Recorded(c), now)
          /\ (RejectedSinceOldest(c) /\ now - Recorded(c)[1] >= Window)
                => history'[Len(history')].admitted]_vars

\* a client is rejected twice while locked out and admitted when its oldest
\* recorded request has become 60 seconds old
C37_Witness ==
    \E c \in Clients : \E i, j, k \in 1..Len(history) :
        /\ i < j /\ j < k /\ k = Len(history)
        /\ history[i].client = c /\ history[j].client = c /\ history[k].client = c
        /\ ~history[i].admitted /\ ~history[j].admitted /\ history[k].admitted
        /\ history[i].at < history[j].at
        /\ \E m \in 1..(i - 1) : /\ history[m].client = c /\ history[m].admitted
                                 /\ history[k].at = history[m].at + Window

(* ------------------------------ C32: errorDetails written once ---------- *)

\* the messages download_video writes on its failure paths
FetchErrors ==
    {ENoFile, ErrDownloading(ENoFile), ErrDownloading(EEngine), ErrDownloading(EFloat)}

\* C32: once the media fetch of a job has written Failed with errorDetails,
\* no later step of that fetch writes errorDetails again
C32_ErrorDetailsWrittenOnce ==
    [][\A j \in JobIds :
          ( /\ Present(j, "error_details")
            /\ jobs[j].status = FAILED
            /\ jobs[j].error_details \in FetchErrors
            /\ task'[j] # task[j] )
          => jobs'[j].error_details = jobs[j].error_details]_vars

(* ------------------------------ C33: missing file is never Completed ---- *)

\* C33: a status query made between the engine's completion report and the
\* final write of a job whose finished file cannot be found (no name was
\* captured) does not answer Completed
C33_MissingFileNeverSeenCompleted ==
    \A j \in JobIds :
        ( /\ resp.op = "status" /\ resp.code = 200 /\ resp.job_id = j
          /\ task[j].pc = "engine_finished"
          /\ ~FileFound(task[j].downloaded_file, TRUE) )
        => resp.status # COMPLETED

(* ------------------------------ C34: one background unit per request ---- *)

\* the step is a POST /download request being answered
DownloadAnswered == resp'.op = "download" /\ nreq' = nreq + 1

\* C34: an accepted download request schedules one background fetch, under
\* its own job id, which had none before, and leaves the other units alone;
\* a rejected request schedules none
C34_OneUnitPerAcceptedRequest ==
    [][DownloadAnswered =>
          IF resp'.code = 200
          THEN /\ task[resp'.job_id].pc = "none"
               /\ task'[resp'.job_id].pc = "start"
               /\ task'[resp'.job_id].url = resp'.url
               /\ \A k \in JobIds \ {resp'.job_id} : task'[k] = task[k]
          ELSE task' = task]_vars

\* a second request has been accepted while the unit of the first is running
C34_Witness ==
    /\ resp.op = "download" /\ resp.code = 200
    /\ task[resp.job_id].pc = "start"
    /\ \E k \in JobIds \ {resp.job_id} : task[k].pc = "engine"

(* ------------------------------ C35: progress only with InProgress ------ *)

\* the progress value of job j changes hands in the step
ProgressWritten(j) ==
    /\ j \in DOMAIN jobs' /\ "progress" \in DOMAIN jobs'[j]
    /\ ~Present(j, "progress") \/ jobs'[j].progress # jobs[j].progress

\* C35: a step that writes a progress value to a job leaves it InProgress,
\* and every progress tick of the engine is one update of the job owning the
\* fetch, to InProgress with the reported value, that touches no other job
C35_ProgressOnlyInProgress ==
    [][\A j \in JobIds :
          /\ ProgressWritten(j) => jobs'[j].status = IN_PROGRESS
          /\ task'[j].ticks = task[j].ticks + 1 =>
                /\ j \in DOMAIN jobs'
                /\ jobs'[j].status = IN_PROGRESS
                /\ jobs'[j].progress \in Percents
                /\ DOMAIN jobs' = DOMAIN jobs \cup {j}
                /\ \A k \in DOMAIN jobs \ {j} : jobs'[k] = jobs[k]]_vars

(* ------------------------------ C38: createdAt of the response ---------- *)

\* C38: the createdAt of the POST /download response is the createdAt
\* stored in the record of the returned job id
C38_ResponseCreatedAtIsStored ==
    (resp.op = "download" /\ resp.code = 200)
        => resp.created_at = jobs[resp.job_id].created_at
====
